---- MODULE Spec2Model ----
(***************************************************************************)
(* Model of refactor.py: a checkout coordinator (CheckoutService) that     *)
(* pays an Order through an injected IPaymentProcessor and, on success,    *)
(* marks the order paid and notifies through an injected                   *)
(* INotificationService.  run_checkout is modelled statement by statement  *)
(* (pc holds the line about to execute) so that the order of its effects   *)
(* can be stated.                                                          *)
(***************************************************************************)
EXTENDS Integers, Sequences, FiniteSets, TLC

\* ---------------------------------------------------------------- bounds
MaxOrders == 2
MaxCalls == 2

\* ------------------------------------------------------- input domains
Names == {"Andi", "Budi"}
Prices == {100000, 500000}

OrderIds == 1..MaxOrders

\* ---------------------------------------------------------------- Order
\* Order.__init__: a fresh order is pending.
Order(customer_name, total_price) ==
    [customer_name |-> customer_name, total_price |-> total_price, status |-> "pending"]

\* Slot of the model that holds no Order object yet.
NoOrder == [customer_name |-> "", total_price |-> 0, status |-> "none"]

\* -------------------------------------------------------------- logging
\* One observable event of a call.  ev is "log", "process", "assign" or
\* "send"; role is the component that acted; by is its concrete class.
Event(ev, role, by, level, text, oid, o) ==
    [ev |-> ev, role |-> role, by |-> by, level |-> level, text |-> text,
     oid |-> oid, customer |-> o.customer_name, total |-> o.total_price,
     status |-> o.status]

\* LOGGER.info(...) / LOGGER.error(...): basicConfig(level=INFO) lets both through.
LogInfo(role, by, text, o) == Event("log", role, by, "INFO", text, 0, o)
LogError(role, by, text, o) == Event("log", role, by, "ERROR", text, 0, o)

\* The placeholder for a message that formats no field of the order.
NoArgs == NoOrder

\* Only the fields a message formats are visible in the log line.
NameOnly(o) == [customer_name |-> o.customer_name, total_price |-> 0, status |-> "none"]
NameAndTotal(o) == [customer_name |-> o.customer_name, total_price |-> o.total_price, status |-> "none"]

\* ----------------------------------------------------------- processors
Concrete == {"CreditCardProcessor", "QrisProcessor"}
Processors == Concrete \cup {"StubProcessor"}

\* A processor yields the order as it leaves it, its return value and its log lines.
\* (variant: the processor marks the order paid itself)
CreditCardProcessor_process_mutating(order) ==
    [order |-> [order EXCEPT !.status = "paid"], ret |-> TRUE,
     logs |-> << LogInfo("processor", "CreditCardProcessor",
                         "Payment: Memproses Kartu Kredit untuk", NameOnly(order)) >>]

CreditCardProcessor_process(order) ==
    [order |-> order, ret |-> TRUE,
     logs |-> << LogInfo("processor", "CreditCardProcessor",
                         "Payment: Memproses Kartu Kredit untuk", NameOnly(order)) >>]

\* (variant: the QRIS processor reports failure)
QrisProcessor_process_failing(order) ==
    [order |-> order, ret |-> FALSE,
     logs |-> << LogInfo("processor", "QrisProcessor",
                         "Payment: Memproses QRIS untuk", NameOnly(order)) >>]

QrisProcessor_process(order) ==
    [order |-> order, ret |-> TRUE,
     logs |-> << LogInfo("processor", "QrisProcessor",
                         "Payment: Memproses QRIS untuk", NameOnly(order)) >>]

\* Any other implementation of the IPaymentProcessor contract: it returns
\* a bool (b, chosen by the environment) and is otherwise silent.
IPaymentProcessor_process(order, b) ==
    [order |-> order, ret |-> b, logs |-> << >>]

\* Dynamic dispatch of self.payment_processor.process(order).
process(p, order, b) ==
    CASE p = "CreditCardProcessor" -> CreditCardProcessor_process(order)
      [] p = "QrisProcessor" -> QrisProcessor_process(order)
      [] OTHER -> IPaymentProcessor_process(order, b)

\* EmailNotifier.send: logs one line, returns nothing, leaves the order alone.
EmailNotifier_send(order) ==
    << LogInfo("notifier", "EmailNotifier",
               "Notif: Mengirim email konfirmasi ke", NameOnly(order)) >>

\* ------------------------------------------------------ CheckoutService
\* CheckoutService.__init__: stores the two injected collaborators.
CheckoutService(payment_processor, notifier) ==
    [payment_processor |-> payment_processor, notifier |-> notifier]

Services == { CheckoutService(p, "EmailNotifier") : p \in Processors }

\* How a call ends: it has not ended, it returned b, or an exception left it
\* (run_checkout itself has no raise statement).
NoResult == [kind |-> "none", value |-> FALSE]
Return(b) == [kind |-> "return", value |-> b]
Raise == [kind |-> "raise", value |-> FALSE]

NoCall == [proc |-> "", start |-> NoOrder, result |-> NoResult, end |-> "none", events |-> << >>]

VARIABLES
    orders,           \* OrderIds -> Order record or NoOrder
    pc,               \* line of run_checkout about to execute, or "idle"
    self,             \* the CheckoutService whose run_checkout is executing
    cur,              \* id of the order passed to the executing call (0: none)
    start,            \* the order as it was when the call began
    payment_success,  \* local of run_checkout
    result,           \* how the last call ended
    trace,            \* events of the executing (or last) call, in order
    assigns,          \* per order: number of assignments to order.status
    successes,        \* per order: number of calls in which process returned True
    ncalls,           \* number of run_checkout calls made
    lastCall          \* per concrete processor: summary of its last finished call

vars == << orders, pc, self, cur, start, payment_success, result, trace,
           assigns, successes, ncalls, lastCall >>

Init ==
    /\ orders = [i \in OrderIds |-> NoOrder]
    /\ pc = "idle"
    /\ self = CheckoutService("", "")
    /\ cur = 0
    /\ start = NoOrder
    /\ payment_success = FALSE
    /\ result = NoResult
    /\ trace = << >>
    /\ assigns = [i \in OrderIds |-> 0]
    /\ successes = [i \in OrderIds |-> 0]
    /\ ncalls = 0
    /\ lastCall = [p \in Concrete |-> NoCall]

\* The caller constructs an Order (orders fill the slots in turn).
CreateOrder ==
    /\ pc = "idle"
    /\ \E i \in OrderIds, n \in Names, t \in Prices :
         /\ orders[i] = NoOrder
         /\ \A j \in OrderIds : j < i => orders[j] # NoOrder
         /\ orders' = [orders EXCEPT ![i] = Order(n, t)]
    /\ UNCHANGED << pc, self, cur, start, payment_success, result, trace,
                    assigns, successes, ncalls, lastCall >>

\* The caller invokes s.run_checkout(orders[i]).
Call ==
    /\ pc = "idle"
    /\ ncalls < MaxCalls
    /\ \E s \in Services, i \in OrderIds :
         /\ orders[i] # NoOrder
         /\ self' = s
         /\ cur' = i
         /\ start' = orders[i]
    /\ pc' = "l101"
    /\ payment_success' = FALSE
    /\ result' = NoResult
    /\ trace' = << >>
    /\ ncalls' = ncalls + 1
    /\ UNCHANGED << orders, assigns, successes, lastCall >>

\* line 101: LOGGER.info(start of checkout)
LogStart ==
    /\ pc = "l101"
    /\ trace' = Append(trace, LogInfo("coordinator", "CheckoutService",
                                      "Memulai checkout untuk", NameAndTotal(orders[cur])))
    /\ pc' = "l103"
    /\ UNCHANGED << orders, self, cur, start, payment_success, result,
                    assigns, successes, ncalls, lastCall >>

\* line 103: payment_success = self.payment_processor.process(order)
CallProcess ==
    /\ pc = "l103"
    /\ \E b \in BOOLEAN :
         LET r == process(self.payment_processor, orders[cur], b) IN
         /\ orders' = [orders EXCEPT ![cur] = r.order]
         /\ payment_success' = r.ret
         /\ trace' = trace \o << Event("process", "processor", self.payment_processor,
                                       "", "", cur, orders[cur]) >> \o r.logs
         /\ successes' = [successes EXCEPT ![cur] = @ + (IF r.ret THEN 1 ELSE 0)]
    /\ pc' = "l105"
    /\ UNCHANGED << self, cur, start, result, assigns, ncalls, lastCall >>

\* lines 105-106: if payment_success: order.status = "paid"
\* (variant: the notification is sent before the status is assigned)
SetPaid_afterSend ==
    /\ pc = "l105"
    /\ payment_success
    /\ orders' = [orders EXCEPT ![cur].status = "paid"]
    /\ assigns' = [assigns EXCEPT ![cur] = @ + 1]
    /\ trace' = trace \o << Event("send", "notifier", self.notifier, "", "",
                                  cur, orders[cur]) >>
                      \o EmailNotifier_send(orders[cur])
                      \o << Event("assign", "coordinator", "CheckoutService",
                                  "", "", cur, orders'[cur]) >>
    /\ pc' = "l109"
    /\ UNCHANGED << self, cur, start, payment_success, result, successes,
                    ncalls, lastCall >>

\* (variant: the assignment is forgotten)
SetPaid_skipped ==
    /\ pc = "l105"
    /\ payment_success
    /\ pc' = "l107"
    /\ UNCHANGED << orders, trace, assigns, self, cur, start, payment_success,
                    result, successes, ncalls, lastCall >>

SetPaid ==
    /\ pc = "l105"
    /\ payment_success
    /\ orders' = [orders EXCEPT ![cur].status = "paid"]
    /\ assigns' = [assigns EXCEPT ![cur] = @ + 1]
    /\ trace' = Append(trace, Event("assign", "coordinator", "CheckoutService",
                                    "", "", cur, orders'[cur]))
    /\ pc' = "l107"
    /\ UNCHANGED << self, cur, start, payment_success, result, successes,
                    ncalls, lastCall >>

\* line 107: self.notifier.send(order)
\* (variant: the notifier is invoked twice)
Send_twice ==
    /\ pc = "l107"
    /\ trace' = trace \o << Event("send", "notifier", self.notifier, "", "",
                                  cur, orders[cur]) >>
                      \o EmailNotifier_send(orders[cur])
                      \o << Event("send", "notifier", self.notifier, "", "",
                                  cur, orders[cur]) >>
                      \o EmailNotifier_send(orders[cur])
    /\ pc' = "l109"
    /\ UNCHANGED << orders, self, cur, start, payment_success, result,
                    assigns, successes, ncalls, lastCall >>

Send ==
    /\ pc = "l107"
    /\ trace' = trace \o << Event("send", "notifier", self.notifier, "", "",
                                  cur, orders[cur]) >>
                      \o EmailNotifier_send(orders[cur])
    /\ pc' = "l109"
    /\ UNCHANGED << orders, self, cur, start, payment_success, result,
                    assigns, successes, ncalls, lastCall >>

\* line 109: LOGGER.info("Checkout Sukses. Status pesanan: PAID.")
LogSuccess ==
    /\ pc = "l109"
    /\ trace' = Append(trace, LogInfo("coordinator", "CheckoutService",
                                      "Checkout Sukses. Status pesanan: PAID.", NoArgs))
    /\ pc' = "l110"
    /\ UNCHANGED << orders, self, cur, start, payment_success, result,
                    assigns, successes, ncalls, lastCall >>

\* The summary kept of a finished call.
Summary(r) ==
    [proc |-> self.payment_processor, start |-> start, result |-> r,
     end |-> orders[cur].status, events |-> trace]

Remember(r) ==
    IF self.payment_processor \in Concrete
    THEN [lastCall EXCEPT ![self.payment_processor] = Summary(r)]
    ELSE lastCall

\* line 110: return True
ReturnTrue ==
    /\ pc = "l110"
    /\ result' = Return(TRUE)
    /\ lastCall' = Remember(Return(TRUE))
    /\ pc' = "idle"
    /\ UNCHANGED << orders, self, cur, start, payment_success, trace,
                    assigns, successes, ncalls >>

\* line 113 (reached when the if at line 105 is not taken): LOGGER.error(...)
\* (variant: the failure branch marks the order failed)
LogFailure_marksFailed ==
    /\ pc = "l105"
    /\ ~payment_success
    /\ orders' = [orders EXCEPT ![cur].status = "failed"]
    /\ assigns' = [assigns EXCEPT ![cur] = @ + 1]
    /\ trace' = trace \o << Event("assign", "coordinator", "CheckoutService",
                                  "", "", cur, orders'[cur]),
                            LogError("coordinator", "CheckoutService",
                                     "Pembayaran gagal. Transaksi dibatalkan.", NoArgs) >>
    /\ pc' = "l114"
    /\ UNCHANGED << self, cur, start, payment_success, result, successes,
                    ncalls, lastCall >>

\* (variant: the failure is logged below error level)
LogFailure_atWarning ==
    /\ pc = "l105"
    /\ ~payment_success
    /\ trace' = Append(trace, Event("log", "coordinator", "CheckoutService", "WARNING",
                                    "Pembayaran gagal. Transaksi dibatalkan.", 0, NoArgs))
    /\ pc' = "l114"
    /\ UNCHANGED << orders, self, cur, start, payment_success, result,
                    assigns, successes, ncalls, lastCall >>

LogFailure ==
    /\ pc = "l105"
    /\ ~payment_success
    /\ trace' = Append(trace, LogError("coordinator", "CheckoutService",
                                       "Pembayaran gagal. Transaksi dibatalkan.", NoArgs))
    /\ pc' = "l114"
    /\ UNCHANGED << orders, self, cur, start, payment_success, result,
                    assigns, successes, ncalls, lastCall >>

\* line 114: return False
\* (variant: the failure is raised to the caller)
ReturnFalse_raises ==
    /\ pc = "l114"
    /\ result' = Raise
    /\ lastCall' = Remember(Raise)
    /\ pc' = "idle"
    /\ UNCHANGED << orders, self, cur, start, payment_success, trace,
                    assigns, successes, ncalls >>

\* (variant: the failure branch falls through to the success return)
ReturnFalse_returnsTrue ==
    /\ pc = "l114"
    /\ result' = Return(TRUE)
    /\ lastCall' = Remember(Return(TRUE))
    /\ pc' = "idle"
    /\ UNCHANGED << orders, self, cur, start, payment_success, trace,
                    assigns, successes, ncalls >>

ReturnFalse ==
    /\ pc = "l114"
    /\ result' = Return(FALSE)
    /\ lastCall' = Remember(Return(FALSE))
    /\ pc' = "idle"
    /\ UNCHANGED << orders, self, cur, start, payment_success, trace,
                    assigns, successes, ncalls >>

\* The statements of run_checkout.
Step ==
    \/ LogStart
    \/ CallProcess
    \/ SetPaid
    \/ Send
    \/ LogSuccess
    \/ ReturnTrue
    \/ LogFailure
    \/ ReturnFalse

Next ==
    \/ CreateOrder
    \/ Call
    \/ Step

Spec == Init /\ [][Next]_vars

\* Execution is synchronous: a call that has begun runs to its return.
FairSpec == Spec /\ WF_vars(Step)

\* =============================================================== claims
\* Positions of the events of kind ev in the trace of the call.
At(ev) == { i \in DOMAIN trace : trace[i].ev = ev }

IsLog(e, level) == e.ev = "log" /\ e.role = "coordinator" /\ e.level = level
IsStartLog(e) == IsLog(e, "INFO") /\ e.text = "Memulai checkout untuk"
IsSuccessLog(e) == IsLog(e, "INFO") /\ e.text = "Checkout Sukses. Status pesanan: PAID."
ErrorLogs == { i \in DOMAIN trace : trace[i].ev = "log" /\ trace[i].level = "ERROR" }
SuccessLogs == { i \in DOMAIN trace : IsSuccessLog(trace[i]) }

\* A call has been made and has ended.
Finished == pc = "idle" /\ ncalls > 0

\* C1: when process(order) returned True, run_checkout returns True and
\* the order's status is "paid" when the call returns.
C1_SuccessReturnsTrueAndPaid ==
    (Finished /\ payment_success) =>
        (result = Return(TRUE) /\ orders[cur].status = "paid")

C1_Witness ==
    /\ Finished /\ payment_success
    /\ start.status = "pending"
    /\ result = Return(TRUE)
    /\ orders[cur].status = "paid"

\* C2: when process(order) returned False, run_checkout returns False and
\* the order is as it was before the call (a fresh order is still pending).
C2_FailureReturnsFalseUnchanged ==
    (Finished /\ ~payment_success) =>
        (result = Return(FALSE) /\ orders[cur] = start)

C2_Witness ==
    /\ Finished /\ ~payment_success
    /\ result = Return(FALSE)
    /\ start.status = "pending"
    /\ orders[cur].status = "pending"

\* C3: within one call, send is invoked exactly once, with the order of the
\* call, when process returned True, and never when it returned False.
C3_SendOncePerSuccess ==
    /\ \A i \in At("send") : trace[i].oid = cur /\ payment_success
    /\ Cardinality(At("send")) <= 1
    /\ Finished => Cardinality(At("send")) = (IF payment_success THEN 1 ELSE 0)

C3_Witness ==
    /\ Finished /\ payment_success
    /\ Cardinality(At("send")) = 1
    /\ \E i \in At("send") : trace[i].oid = cur /\ trace[i].customer = orders[cur].customer_name

\* C4: whenever send is invoked the order is already "paid": the assignment
\* of the status comes before the send, and send never sees a pending order.
C4_PaidBeforeSend ==
    /\ pc = "l107" => orders[cur].status = "paid"
    /\ \A i \in At("send") :
         /\ trace[i].status = "paid"
         /\ \E j \in At("assign") : j < i /\ trace[j].oid = trace[i].oid

C4_Witness ==
    /\ pc = "l109"
    /\ start.status = "pending"
    /\ \E i \in At("send") : trace[i].status = "paid"

\* C5 as stated: over the lifetime of an order, whatever calls were made on
\* it, its status has been assigned exactly once.
C5_AssignedExactlyOnce ==
    Finished => assigns[cur] = 1

\* C5 amended: the status is assigned exactly once in each call in which
\* process returned True (the value written being "paid") and not at all in a
\* call in which it returned False, so an order's number of assignments is
\* its number of successful calls.
C5_AssignedOncePerSuccessfulCall ==
    /\ Cardinality(At("assign")) <= 1
    /\ \A i \in At("assign") : trace[i].oid = cur /\ trace[i].status = "paid"
    /\ Finished => Cardinality(At("assign")) = (IF payment_success THEN 1 ELSE 0)
    /\ pc \in {"idle", "l101", "l103"} => \A i \in OrderIds : assigns[i] = successes[i]
    /\ Finished => \A i \in OrderIds : assigns[i] <= ncalls

C5_Witness ==
    /\ Finished
    /\ assigns[cur] = 2
    /\ successes[cur] = 2

\* C6: an order's status is "pending" or "paid", never "failed"; it is
\* "pending" at creation, changes only from "pending" to "paid" and only in
\* a call in which process returned True, and once "paid" stays "paid".
StatusStep(i) ==
    /\ orders[i] = NoOrder => orders'[i] = NoOrder \/ orders'[i].status = "pending"
    /\ orders[i].status = "pending" /\ orders'[i].status # "pending" =>
         /\ orders'[i].status = "paid"
         /\ pc # "idle" /\ cur = i /\ payment_success
    /\ orders[i].status = "paid" => orders'[i].status = "paid"

C6_StatusLifecycle ==
    /\ [](\A i \in OrderIds : orders[i].status \in {"none", "pending", "paid"})
    /\ [][\A i \in OrderIds : StatusStep(i)]_vars

C6_Witness ==
    /\ Finished /\ ~payment_success
    /\ start.status = "paid"
    /\ orders[cur].status = "paid"

\* C7: CreditCardProcessor.process and QrisProcessor.process leave the
\* order's status, customer_name and total_price as they are; the status of
\* an order changes only at the assignment in run_checkout.
C7_ProcessorsLeaveOrderAlone ==
    [][ /\ (pc = "l103" /\ self.payment_processor \in Concrete) => orders' = orders
        /\ \A i \in OrderIds :
             (orders[i] # NoOrder /\ orders'[i] # orders[i]) =>
                 (pc = "l105" /\ pc' = "l107" /\ cur = i
                  /\ orders'[i] = [orders[i] EXCEPT !.status = "paid"]) ]_vars

C7_Witness ==
    /\ pc = "l105"
    /\ self.payment_processor \in Concrete
    /\ start.status = "pending"
    /\ orders[cur] = start

\* What a coordinator's call looks like with the identity of the order
\* object, the class of the processor and the text of the processor's own
\* log line left out.
Coordinated(events) ==
    [i \in DOMAIN events |->
        IF events[i].role = "processor"
        THEN [events[i] EXCEPT !.by = "", !.text = "", !.oid = 0]
        ELSE [events[i] EXCEPT !.oid = 0]]

\* C8: a CheckoutService with a CreditCardProcessor and one with a
\* QrisProcessor, run on orders in the same starting state, return the same
\* value, leave the same status and produce the same sequence of events
\* up to the text of the processor's log line.
C8_ProcessorsInterchangeable ==
    LET a == lastCall["CreditCardProcessor"]
        b == lastCall["QrisProcessor"]
    IN (a.proc # "" /\ b.proc # "" /\ a.start = b.start) =>
          /\ a.result = b.result
          /\ a.end = b.end
          /\ Coordinated(a.events) = Coordinated(b.events)

C8_Witness ==
    /\ lastCall["CreditCardProcessor"].proc = "CreditCardProcessor"
    /\ lastCall["QrisProcessor"].proc = "QrisProcessor"
    /\ lastCall["CreditCardProcessor"].start = lastCall["QrisProcessor"].start
    /\ lastCall["QrisProcessor"].start.status = "pending"
    /\ lastCall["QrisProcessor"].end = "paid"
    /\ Len(lastCall["QrisProcessor"].events) > 0

\* C9: a call invokes process exactly once whatever it returns (no retry),
\* ends by returning the boolean process returned, raises nothing, and
\* always ends.
C9_ProcessOnceAndReturns ==
    /\ [](/\ Cardinality(At("process")) <= 1
          /\ pc \in {"l105", "l107", "l109", "l110", "l114"} => Cardinality(At("process")) = 1
          /\ result.kind # "raise"
          /\ Finished => /\ Cardinality(At("process")) = 1
                         /\ result = Return(payment_success))
    /\ (pc # "idle") ~> (pc = "idle")

C9_Witness ==
    /\ Finished /\ ~payment_success
    /\ result = Return(FALSE)
    /\ Cardinality(At("process")) = 1

\* C10: the start event is logged first, before process is called; on
\* success the success event is logged after send and no error is logged; on
\* failure one error and no success event is logged; so an error-level
\* event is logged exactly when process returned False.
C10_EventOrder ==
    /\ Len(trace) >= 1 => IsStartLog(trace[1])
    /\ \A i \in DOMAIN trace : IsStartLog(trace[i]) => i = 1
    /\ \A i \in SuccessLogs :
         /\ At("send") # {}
         /\ \A j \in DOMAIN trace : trace[j].role = "notifier" => j < i
    /\ \A i \in SuccessLogs \cup ErrorLogs : \E j \in At("process") : j < i
    /\ ErrorLogs # {} => ~payment_success /\ SuccessLogs = {}
    /\ SuccessLogs # {} => payment_success
    /\ \A i \in DOMAIN trace : trace[i].ev = "log" => trace[i].level \in {"INFO", "ERROR"}
    /\ Finished =>
         /\ Cardinality(ErrorLogs) = (IF payment_success THEN 0 ELSE 1)
         /\ Cardinality(SuccessLogs) = (IF payment_success THEN 1 ELSE 0)
         /\ \A i \in ErrorLogs : IsLog(trace[i], "ERROR")

C10_Witness ==
    /\ Finished /\ ~payment_success
    /\ Cardinality(ErrorLogs) = 1
    /\ SuccessLogs = {}
    /\ IsStartLog(trace[1])

====
